---- MODULE Spec2Model ----
(***************************************************************************)
(* Weekly shift-roster generator (shift_generator.py, class                *)
(* ShiftGenerator).  One behaviour is a chain of generate_schedule runs:   *)
(* each run starts from an all-OFF grid and a previous_sunday_workers      *)
(* list, walks the seven phases one call at a time, and its                *)
(* get_sunday_workers() list is what the next run receives.                *)
(***************************************************************************)
EXTENDS Integers, Sequences, FiniteSets, TLC

VARIABLES
    previous_sunday_workers, \* the list given to __init__
    schedule,                \* name -> day index 0..6 -> OFF or <<start, end>>
    hours,                   \* name -> accumulated hours
    pc,                      \* position of generate_schedule
    queue,                   \* calls the current phase still has to make
    work,                    \* the list the current loop iterates over
    i,                       \* 1-based position in work
    assigned,                \* _assign_sunday's counter
    iteration,               \* _fill_remaining's counter
    current,                 \* _fine_tune_hours's copy of hours[name]
    saved,                   \* the summary of an earlier instance, if one is kept
    self_staff               \* the staff_roster given to __init__ and self.staff

vars == <<previous_sunday_workers, schedule, hours, pc, queue, work, i,
          assigned, iteration, current, saved, self_staff>>

(***************************************************************************)
(* Bounds.                                                                 *)
(***************************************************************************)
\* longest previous_sunday_workers list enumerated name by name in Init
MaxPrev == 2

\* longest list enumerated name by name where two instances are compared
MaxOrder == 2

(***************************************************************************)
(* Configuration.                                                          *)
(***************************************************************************)
StaffMember(name, is_supervisor, is_male, is_auxiliary, is_overnight_specialist, fixed_day_off, must_work) ==
    [name |-> name, is_supervisor |-> is_supervisor, is_male |-> is_male,
     is_auxiliary |-> is_auxiliary,
     is_overnight_specialist |-> is_overnight_specialist,
     fixed_day_off |-> fixed_day_off, must_work |-> must_work]

STAFF_ROSTER == <<
    StaffMember("KEVAUGHN",  TRUE,  TRUE,  FALSE, FALSE, {}, {}),
    StaffMember("MELLISA",   TRUE,  FALSE, FALSE, FALSE, {}, {}),
    StaffMember("LIYONIE",   TRUE,  FALSE, FALSE, FALSE, {}, {}),
    StaffMember("RICHIE",    TRUE,  TRUE,  FALSE, FALSE, {}, {}),
    StaffMember("RICHARD",   FALSE, TRUE,  FALSE, FALSE,
                {"SUNDAY", "WEDNESDAY"}, {"SATURDAY"}),
    StaffMember("TANISHA",   FALSE, FALSE, FALSE, FALSE, {}, {}),
    StaffMember("DENTON",    FALSE, TRUE,  FALSE, FALSE, {}, {}),
    StaffMember("BRITANNIA", FALSE, FALSE, FALSE, FALSE, {}, {}),
    StaffMember("GEORGIA",   FALSE, FALSE, FALSE, FALSE, {}, {}),
    StaffMember("STACEY",    FALSE, FALSE, FALSE, FALSE, {}, {}),
    StaffMember("ORVILLE",   FALSE, TRUE,  FALSE, FALSE, {}, {}),
    StaffMember("ROMONE",    FALSE, TRUE,  FALSE, FALSE, {}, {}),
    StaffMember("IEASHA",    FALSE, FALSE, FALSE, FALSE, {}, {}),
    StaffMember("RACQUEL",   FALSE, FALSE, FALSE, FALSE, {}, {}),
    StaffMember("DELON",     FALSE, TRUE,  FALSE, TRUE,  {}, {}),
    StaffMember("YONIQUE",   FALSE, FALSE, FALSE, FALSE, {}, {}),
    StaffMember("SHARMA",    FALSE, FALSE, TRUE,  FALSE, {}, {}),
    StaffMember("SASH",      FALSE, FALSE, TRUE,  FALSE, {}, {}) >>

\* a clock time as the code writes it: "<h>:00 AM" or "<h>:00 PM"
Time(h, half) == [h |-> h, half |-> half]

SHIFTS == [
    morning     |-> <<Time(6, "AM"),  Time(2, "PM"), 8>>,
    midday      |-> <<Time(10, "AM"), Time(6, "PM"), 8>>,
    afternoon   |-> <<Time(2, "PM"),  Time(9, "PM"), 7>>,
    extended_am |-> <<Time(6, "AM"),  Time(4, "PM"), 10>>,
    extended_pm |-> <<Time(12, "PM"), Time(9, "PM"), 9>>,
    full_day    |-> <<Time(6, "AM"),  Time(9, "PM"), 15>>,
    overnight   |-> <<Time(8, "PM"),  Time(6, "AM"), 10>> ]

DAYS == <<"SUNDAY", "MONDAY", "TUESDAY", "WEDNESDAY", "THURSDAY", "FRIDAY",
          "SATURDAY">>

DAILY_TARGETS == [SUNDAY |-> 8, MONDAY |-> 10, TUESDAY |-> 11,
                  WEDNESDAY |-> 11, THURSDAY |-> 11, FRIDAY |-> 12,
                  SATURDAY |-> 9]

\* at least 3 attendants for opening (6AM)
MIN_OPENERS == 3

\* at least 3 attendants for closing (9PM)
MIN_CLOSERS == 3

\* the hard cap of _assign_shift
HourCap == 48

\* the hours every loop of the generator aims at
TargetHours == 40

\* 9 PM as an hour of the day, the latest end _extend_shift produces
CloseHour == 21

\* the most hours one _extend_shift call adds
MaxExtend == 3

\* the number of regular attendants _assign_sunday picks
SundayAttendants == 5

\* max_iterations of _fill_remaining
MaxIterations == 10

(***************************************************************************)
(* The state built by __init__.                                            *)
(***************************************************************************)
OFF == <<>>

DayIdx == 0 .. 6

\* the keys of a dict built from the list, in insertion order
RECURSIVE DictKeys(_)
DictKeys(list) ==
    IF list = <<>> THEN <<>>
    ELSE LET front == DictKeys(SubSeq(list, 1, Len(list) - 1))
             name == list[Len(list)].name
         IN  IF \E k \in 1 .. Len(front) : front[k] = name
             THEN front ELSE Append(front, name)

\* {s.name: s for s in staff_roster}: a name keeps the place of its first
\* entry and the value of its last
Dict(staff_roster) ==
    [roster |-> staff_roster,
     keys  |-> DictKeys(staff_roster),
     items |-> [n \in {staff_roster[k].name : k \in 1 .. Len(staff_roster)} |->
                   staff_roster[CHOOSE k \in 1 .. Len(staff_roster) :
                       /\ staff_roster[k].name = n
                       /\ \A l \in k + 1 .. Len(staff_roster) :
                              staff_roster[l].name # n]]]

Names == DOMAIN self_staff.items

\* self.staff: name -> StaffMember
staff == self_staff.items

\* the keys of self.schedule in insertion order
RosterNames == self_staff.keys

InitSchedule == [n \in Names |-> [d \in DayIdx |-> OFF]]

InitHours == [n \in Names |-> 0]

\* mutant: only the last name of the list is looked at
In_last_only(x, list) == list # <<>> /\ list[Len(list)] = x

\* Python's "x in list"
In(x, list) == \E k \in 1 .. Len(list) : list[k] = x

(***************************************************************************)
(* Helpers of ShiftGenerator.                                              *)
(***************************************************************************)
_parse_hour(t) ==
    IF t.half = "PM"
    THEN (IF t.h # 12 THEN t.h + 12 ELSE t.h)
    ELSE (IF t.h = 12 THEN 0 ELSE t.h)

_calc_hours(start, end) ==
    LET s == _parse_hour(start)
        e == _parse_hour(end)
    IN  IF e < s THEN (24 - s) + e ELSE e - s

_get_staff_by_role(role) ==
    CASE role = "supervisors" ->
           SelectSeq(RosterNames, LAMBDA n : staff[n].is_supervisor)
      [] role = "males" ->
           SelectSeq(RosterNames, LAMBDA n : staff[n].is_male)
      [] role = "overnight_eligible" ->
           SelectSeq(RosterNames, LAMBDA n : staff[n].is_male
                                          /\ ~staff[n].is_supervisor
                                          /\ ~staff[n].is_overnight_specialist)
      [] role = "overnight_specialist" ->
           SelectSeq(RosterNames, LAMBDA n : staff[n].is_overnight_specialist)
      [] role = "auxiliary" ->
           SelectSeq(RosterNames, LAMBDA n : staff[n].is_auxiliary)
      [] role = "regular" ->
           SelectSeq(RosterNames, LAMBDA n : ~staff[n].is_supervisor
                                          /\ ~staff[n].is_auxiliary
                                          /\ ~staff[n].is_overnight_specialist)
      [] OTHER -> <<>>

\* a cell holding the overnight shift: not OFF and start "8:00 PM"
IsOvernight(cell) == cell # OFF /\ cell[1] = Time(8, "PM")

\* mutant: the day after an overnight shift is not held free
_can_work_day_no_rest(sch, prevw, staff_name, day) ==
    IF day \in staff[staff_name].fixed_day_off THEN FALSE
    ELSE IF day = "SUNDAY" /\ In(staff_name, prevw) THEN FALSE
    ELSE TRUE

_can_work_day(sch, prevw, staff_name, day) ==
    LET day_idx == CHOOSE d \in DayIdx : DAYS[d + 1] = day
        prev_day_idx == (day_idx - 1) % 7
        prev_shift == sch[staff_name][prev_day_idx]
    IN  IF day \in staff[staff_name].fixed_day_off THEN FALSE
        ELSE IF day = "SUNDAY" /\ In(staff_name, prevw) THEN FALSE
        ELSE IF IsOvernight(prev_shift) THEN FALSE
        ELSE TRUE

_closes_at_9pm(sch, staff_name, day_idx) ==
    LET shift == sch[staff_name][day_idx]
    IN  IF shift = OFF THEN FALSE ELSE shift[2] = Time(9, "PM")

\* mutant: the close-then-open test is skipped on every day, not only Sunday
_can_open_next_day_any_day(sch, staff_name, day_idx) == TRUE

_can_open_next_day(sch, staff_name, day_idx) ==
    IF day_idx = 0 THEN TRUE
    ELSE ~_closes_at_9pm(sch, staff_name, day_idx - 1)

\* the generator's mutable maps as one value, and a call's return value
St(sch, hrs) == [schedule |-> sch, hours |-> hrs]

Ret(st, ok) == [st |-> st, ok |-> ok]

\* mutant: the cell is written whether or not it is OFF
_assign_shift_overwrite(st, staff_name, day_idx, shift_type) ==
    LET start == SHIFTS[shift_type][1]
        end   == SHIFTS[shift_type][2]
        hrs   == SHIFTS[shift_type][3]
    IN  IF start = Time(6, "AM")
           /\ ~_can_open_next_day(st.schedule, staff_name, day_idx)
        THEN Ret(st, FALSE)
        ELSE IF st.hours[staff_name] + hrs > HourCap THEN Ret(st, FALSE)
        ELSE Ret(St([st.schedule EXCEPT ![staff_name][day_idx] = <<start, end>>],
                    [st.hours EXCEPT ![staff_name] = @ + hrs]),
                 TRUE)

\* mutant: no hard cap
_assign_shift_uncapped(st, staff_name, day_idx, shift_type) ==
    LET start == SHIFTS[shift_type][1]
        end   == SHIFTS[shift_type][2]
        hrs   == SHIFTS[shift_type][3]
    IN  IF st.schedule[staff_name][day_idx] # OFF THEN Ret(st, FALSE)
        ELSE IF start = Time(6, "AM")
                /\ ~_can_open_next_day(st.schedule, staff_name, day_idx)
             THEN Ret(st, FALSE)
        ELSE Ret(St([st.schedule EXCEPT ![staff_name][day_idx] = <<start, end>>],
                    [st.hours EXCEPT ![staff_name] = @ + hrs]),
                 TRUE)

_assign_shift(st, staff_name, day_idx, shift_type) ==
    LET start == SHIFTS[shift_type][1]
        end   == SHIFTS[shift_type][2]
        hrs   == SHIFTS[shift_type][3]
    IN  IF st.schedule[staff_name][day_idx] # OFF THEN Ret(st, FALSE)
        ELSE IF start = Time(6, "AM")
                /\ ~_can_open_next_day(st.schedule, staff_name, day_idx)
             THEN Ret(st, FALSE)
        ELSE IF st.hours[staff_name] + hrs > HourCap THEN Ret(st, FALSE)
        ELSE Ret(St([st.schedule EXCEPT ![staff_name][day_idx] = <<start, end>>],
                    [st.hours EXCEPT ![staff_name] = @ + hrs]),
                 TRUE)

\* mutant: an afternoon hour is written with AM
FormatHour_am(new_end_hour) ==
    IF new_end_hour = 12 THEN Time(12, "PM")
    ELSE IF new_end_hour > 12 THEN Time(new_end_hour - 12, "AM")
    ELSE Time(new_end_hour, "AM")

\* the end time string _extend_shift formats from an hour of the day
FormatHour(new_end_hour) ==
    IF new_end_hour = 12 THEN Time(12, "PM")
    ELSE IF new_end_hour > 12 THEN Time(new_end_hour - 12, "PM")
    ELSE Time(new_end_hour, "AM")

Min(a, b) == IF a < b THEN a ELSE b

\* mutant: the extension ignores how many hours were asked for
_extend_shift_ignores_need(st, staff_name, day_idx, extra_hours) ==
    LET shift == st.schedule[staff_name][day_idx]
        start == shift[1]
        end   == shift[2]
        end_hour == _parse_hour(end)
        max_extend == CloseHour - end_hour
        actual_extend == Min(max_extend, MaxExtend)
        new_end == FormatHour(end_hour + actual_extend)
    IN  IF shift = OFF THEN Ret(st, FALSE)
        ELSE IF start = Time(8, "PM") THEN Ret(st, FALSE)
        ELSE IF end_hour >= CloseHour THEN Ret(st, FALSE)
        ELSE IF actual_extend <= 0 THEN Ret(st, FALSE)
        ELSE Ret(St([st.schedule EXCEPT ![staff_name][day_idx] = <<start, new_end>>],
                    [st.hours EXCEPT ![staff_name] = @ + actual_extend]),
                 TRUE)

\* mutant: the hours asked for are booked, not the hours the end was moved
_extend_shift_requested_hours(st, staff_name, day_idx, extra_hours) ==
    LET shift == st.schedule[staff_name][day_idx]
        start == shift[1]
        end   == shift[2]
        end_hour == _parse_hour(end)
        max_extend == CloseHour - end_hour
        actual_extend == Min(Min(extra_hours, max_extend), MaxExtend)
        new_end == FormatHour(end_hour + actual_extend)
    IN  IF shift = OFF THEN Ret(st, FALSE)
        ELSE IF start = Time(8, "PM") THEN Ret(st, FALSE)
        ELSE IF end_hour >= CloseHour THEN Ret(st, FALSE)
        ELSE IF actual_extend <= 0 THEN Ret(st, FALSE)
        ELSE Ret(St([st.schedule EXCEPT ![staff_name][day_idx] = <<start, new_end>>],
                    [st.hours EXCEPT ![staff_name] = @ + extra_hours]),
                 TRUE)

\* mutant: the extension is not held back at the 9 PM close
_extend_shift_past_close(st, staff_name, day_idx, extra_hours) ==
    LET shift == st.schedule[staff_name][day_idx]
        start == shift[1]
        end   == shift[2]
        end_hour == _parse_hour(end)
        actual_extend == Min(extra_hours, MaxExtend)
        new_end == FormatHour(end_hour + actual_extend)
    IN  IF shift = OFF THEN Ret(st, FALSE)
        ELSE IF start = Time(8, "PM") THEN Ret(st, FALSE)
        ELSE IF actual_extend <= 0 THEN Ret(st, FALSE)
        ELSE Ret(St([st.schedule EXCEPT ![staff_name][day_idx] = <<start, new_end>>],
                    [st.hours EXCEPT ![staff_name] = @ + actual_extend]),
                 TRUE)

_extend_shift(st, staff_name, day_idx, extra_hours) ==
    LET shift == st.schedule[staff_name][day_idx]
        start == shift[1]
        end   == shift[2]
        end_hour == _parse_hour(end)
        max_extend == CloseHour - end_hour
        actual_extend == Min(Min(extra_hours, max_extend), MaxExtend)
        new_end == FormatHour(end_hour + actual_extend)
    IN  IF shift = OFF THEN Ret(st, FALSE)
        ELSE IF start = Time(8, "PM") THEN Ret(st, FALSE)
        ELSE IF end_hour >= CloseHour THEN Ret(st, FALSE)
        ELSE IF actual_extend <= 0 THEN Ret(st, FALSE)
        ELSE Ret(St([st.schedule EXCEPT ![staff_name][day_idx] = <<start, new_end>>],
                    [st.hours EXCEPT ![staff_name] = @ + actual_extend]),
                 TRUE)

_get_daily_count(sch, day_idx) ==
    Cardinality({n \in Names : sch[n][day_idx] # OFF
                               /\ sch[n][day_idx][1] # Time(8, "PM")})

_try_assign(st, prevw, name, day_idx, shift_type) ==
    IF st.schedule[name][day_idx] # OFF THEN Ret(st, FALSE)
    ELSE IF ~_can_work_day(st.schedule, prevw, name, DAYS[day_idx + 1])
         THEN Ret(st, FALSE)
    ELSE IF SHIFTS[shift_type][1] = Time(6, "AM")
            /\ ~_can_open_next_day(st.schedule, name, day_idx)
         THEN _assign_shift(st, name, day_idx, "midday")
    ELSE _assign_shift(st, name, day_idx, shift_type)

\* mutant: the overnight worker is left off the list
get_sunday_workers_day_crew(sch) ==
    SelectSeq(RosterNames,
              LAMBDA s : sch[s][0] # OFF /\ sch[s][0][1] # Time(8, "PM"))

\* mutant: everybody with a shift on any day of the week is listed
get_sunday_workers_any_day(sch) ==
    SelectSeq(RosterNames, LAMBDA s : \E d \in DayIdx : sch[s][d] # OFF)

get_sunday_workers(sch) ==
    SelectSeq(RosterNames, LAMBDA s : sch[s][0] # OFF)

(***************************************************************************)
(* generate_schedule, one call per step.  st is the pair of maps the step  *)
(* starts from.                                                            *)
(***************************************************************************)
Now == St(schedule, hours)

\* a pending _assign_shift call; if_off is the caller's own "cell is OFF" test
Call(name, day_idx, shift_type) ==
    [name |-> name, day |-> day_idx, shift |-> shift_type, if_off |-> FALSE]

CallIfOff(name, day_idx, shift_type) ==
    [name |-> name, day |-> day_idx, shift |-> shift_type, if_off |-> TRUE]

RunCall(st, c) ==
    IF c.if_off /\ st.schedule[c.name][c.day] # OFF THEN st
    ELSE _assign_shift(st, c.name, c.day, c.shift).st

\* the names a previous_sunday_workers list can hold: the roster and a name
\* that is not on it
PrevNames == RosterNames \o <<"FORMER_STAFF">>

AsList(S) == SelectSeq(PrevNames, LAMBDA n : n \in S)

RoleLists == {_get_staff_by_role(r) : r \in {"supervisors", "auxiliary", "regular"}}
             \cup {RosterNames}

PrevInputs ==
    {AsList(S) : S \in {T \in SUBSET {PrevNames[k] : k \in 1 .. Len(PrevNames)} :
                          Cardinality(T) <= MaxPrev}}
    \cup RoleLists

Init ==
    /\ self_staff = Dict(STAFF_ROSTER)
    /\ previous_sunday_workers \in PrevInputs
    /\ saved = <<>>
    /\ schedule = InitSchedule
    /\ hours = InitHours
    /\ pc = "sunday_supervisor"
    /\ queue = <<>>
    /\ work = <<>>
    /\ i = 1
    /\ assigned = 0
    /\ iteration = 0
    /\ current = 0

Commit(st) ==
    /\ schedule' = st.schedule
    /\ hours' = st.hours

(***************************************************************************)
(* Step 1: _assign_sunday.                                                 *)
(***************************************************************************)
SundayEligible(role) ==
    SelectSeq(_get_staff_by_role(role),
           LAMBDA s : _can_work_day(schedule, previous_sunday_workers, s, "SUNDAY"))

AssignSundaySupervisor ==
    /\ pc = "sunday_supervisor"
    /\ LET available_sups == SundayEligible("supervisors")
       IN  Commit(IF available_sups # <<>>
                  THEN _assign_shift(Now, available_sups[1], 0, "full_day").st
                  ELSE Now)
    /\ pc' = "sunday_auxiliary"
    /\ UNCHANGED <<self_staff, saved, previous_sunday_workers, queue, work, i, assigned, iteration,
                   current>>

\* mutant: the first auxiliary is taken without asking _can_work_day
AssignSundayAuxiliary_unfiltered ==
    /\ pc = "sunday_auxiliary"
    /\ LET auxiliary == _get_staff_by_role("auxiliary")
       IN  Commit(IF auxiliary # <<>>
                  THEN _assign_shift(Now, auxiliary[1], 0, "full_day").st
                  ELSE Now)
    /\ pc' = "sunday_regular_list"
    /\ UNCHANGED <<self_staff, saved, previous_sunday_workers, queue, work, i, assigned, iteration,
                   current>>

AssignSundayAuxiliary ==
    /\ pc = "sunday_auxiliary"
    /\ LET auxiliary == SundayEligible("auxiliary")
       IN  Commit(IF auxiliary # <<>>
                  THEN _assign_shift(Now, auxiliary[1], 0, "full_day").st
                  ELSE Now)
    /\ pc' = "sunday_regular_list"
    /\ UNCHANGED <<self_staff, saved, previous_sunday_workers, queue, work, i, assigned, iteration,
                   current>>

SundayRegularList ==
    /\ pc = "sunday_regular_list"
    /\ work' = SelectSeq(SundayEligible("regular"), LAMBDA s : s # "RICHARD")
    /\ i' = 1
    /\ assigned' = 0
    /\ pc' = "sunday_regular"
    /\ UNCHANGED <<self_staff, saved, previous_sunday_workers, schedule, hours, queue, iteration,
                   current>>

AssignSundayRegular ==
    /\ pc = "sunday_regular"
    /\ IF i > Len(work) \/ assigned >= SundayAttendants
       THEN /\ pc' = "sunday_overnight"
            /\ UNCHANGED <<schedule, hours, i, assigned>>
       ELSE LET r == _assign_shift(Now, work[i], 0, "full_day")
            IN  /\ Commit(r.st)
                /\ assigned' = IF r.ok THEN assigned + 1 ELSE assigned
                /\ i' = i + 1
                /\ pc' = pc
    /\ UNCHANGED <<self_staff, saved, previous_sunday_workers, queue, work, iteration, current>>

\* mutant: the Sunday night goes to the first male of the roster
AssignSundayOvernight_first_male ==
    /\ pc = "sunday_overnight"
    /\ LET overnight == _get_staff_by_role("males")
       IN  Commit(IF overnight # <<>>
                  THEN _assign_shift(Now, overnight[1], 0, "overnight").st
                  ELSE Now)
    /\ pc' = "overnight_enter"
    /\ UNCHANGED <<self_staff, saved, previous_sunday_workers, queue, work, i, assigned, iteration,
                   current>>

AssignSundayOvernight ==
    /\ pc = "sunday_overnight"
    /\ LET overnight == _get_staff_by_role("overnight_specialist")
       IN  Commit(IF overnight # <<>>
                  THEN _assign_shift(Now, overnight[1], 0, "overnight").st
                  ELSE Now)
    /\ pc' = "overnight_enter"
    /\ UNCHANGED <<self_staff, saved, previous_sunday_workers, queue, work, i, assigned, iteration,
                   current>>

(***************************************************************************)
(* Steps 2-5: the phases that make a fixed list of _assign_shift calls.    *)
(***************************************************************************)
\* mutant: the specialist and the other males swap their weekday nights
OvernightCalls_swapped_nights ==
    LET specialist == _get_staff_by_role("overnight_specialist")
    IN  (IF specialist # <<>>
         THEN <<CallIfOff(specialist[1], 0, "overnight"),
                CallIfOff(specialist[1], 1, "overnight"),
                CallIfOff(specialist[1], 3, "overnight"),
                CallIfOff(specialist[1], 5, "overnight")>>
         ELSE <<>>)
        \o <<Call("DENTON", 6, "overnight"),
             Call("ORVILLE", 2, "overnight"),
             Call("ROMONE", 4, "overnight")>>

\* mutant: the specialist's Saturday night is left out
OvernightCalls_three_nights ==
    LET specialist == _get_staff_by_role("overnight_specialist")
    IN  (IF specialist # <<>>
         THEN <<CallIfOff(specialist[1], 0, "overnight"),
                CallIfOff(specialist[1], 2, "overnight"),
                CallIfOff(specialist[1], 4, "overnight")>>
         ELSE <<>>)
        \o <<Call("DENTON", 5, "overnight"),
             Call("ORVILLE", 1, "overnight"),
             Call("ROMONE", 3, "overnight")>>

OvernightCalls ==
    LET specialist == _get_staff_by_role("overnight_specialist")
    IN  (IF specialist # <<>>
         THEN <<CallIfOff(specialist[1], 0, "overnight"),
                CallIfOff(specialist[1], 2, "overnight"),
                CallIfOff(specialist[1], 4, "overnight"),
                CallIfOff(specialist[1], 6, "overnight")>>
         ELSE <<>>)
        \o <<Call("DENTON", 5, "overnight"),
             Call("ORVILLE", 1, "overnight"),
             Call("ROMONE", 3, "overnight")>>

\* the first supervisor with a Sunday shift, "None" when there is none
SunSup(sch) ==
    LET found == SelectSeq(_get_staff_by_role("supervisors"), LAMBDA s : sch[s][0] # OFF)
    IN  IF found = <<>> THEN "None" ELSE found[1]

SupervisorCalls(sun_sup) ==
    (IF sun_sup = "KEVAUGHN"
     THEN <<Call("KEVAUGHN", 2, "extended_am"),
            Call("KEVAUGHN", 4, "extended_am"),
            Call("KEVAUGHN", 5, "morning")>>
     ELSE <<>>)
    \o <<Call("MELLISA", 1, "extended_pm"),
         Call("MELLISA", 3, "extended_pm"),
         Call("MELLISA", 4, "extended_pm"),
         Call("MELLISA", 5, "extended_pm"),
         Call("MELLISA", 6, "afternoon"),
         Call("LIYONIE", 1, "extended_am"),
         Call("LIYONIE", 2, "extended_am"),
         Call("LIYONIE", 3, "extended_am"),
         Call("LIYONIE", 6, "extended_am"),
         Call("RICHIE", 2, "extended_pm"),
         Call("RICHIE", 4, "extended_pm"),
         Call("RICHIE", 5, "extended_pm"),
         Call("RICHIE", 6, "afternoon"),
         Call("RICHIE", 3, "midday")>>

\* mutant: the Thursday shift lands on Wednesday
RichardCalls_wednesday ==
    <<Call("RICHARD", 1, "extended_pm"),
      Call("RICHARD", 2, "afternoon"),
      Call("RICHARD", 3, "extended_pm"),
      Call("RICHARD", 5, "afternoon"),
      Call("RICHARD", 6, "extended_pm")>>

\* mutant: the Saturday shift lands on Wednesday
RichardCalls_no_saturday ==
    <<Call("RICHARD", 1, "extended_pm"),
      Call("RICHARD", 2, "afternoon"),
      Call("RICHARD", 4, "extended_pm"),
      Call("RICHARD", 5, "afternoon"),
      Call("RICHARD", 3, "extended_pm")>>

RichardCalls ==
    <<Call("RICHARD", 1, "extended_pm"),
      Call("RICHARD", 2, "afternoon"),
      Call("RICHARD", 4, "extended_pm"),
      Call("RICHARD", 5, "afternoon"),
      Call("RICHARD", 6, "extended_pm")>>

AuxiliaryCalls(sharma_worked_sun) ==
    IF sharma_worked_sun
    THEN <<Call("SHARMA", 2, "morning"),
           Call("SHARMA", 4, "morning"),
           Call("SHARMA", 6, "morning"),
           Call("SASH", 1, "morning"),
           Call("SASH", 2, "afternoon"),
           Call("SASH", 3, "midday"),
           Call("SASH", 4, "afternoon"),
           Call("SASH", 5, "midday")>>
    ELSE <<Call("SASH", 2, "morning"),
           Call("SASH", 4, "morning"),
           Call("SASH", 6, "morning"),
           Call("SHARMA", 1, "morning"),
           Call("SHARMA", 2, "afternoon"),
           Call("SHARMA", 3, "midday"),
           Call("SHARMA", 4, "afternoon"),
           Call("SHARMA", 5, "midday")>>

\* entering a phase: its calls are fixed from the state at entry
Enter(at, calls, to) ==
    /\ pc = at
    /\ queue' = calls
    /\ pc' = to
    /\ UNCHANGED <<self_staff, saved, previous_sunday_workers, schedule, hours, work, i, assigned,
                   iteration, current>>

\* the next call of a phase; after the last one the next phase is entered
Step(at, next) ==
    /\ pc = at
    /\ queue # <<>>
    /\ Commit(RunCall(Now, Head(queue)))
    /\ queue' = Tail(queue)
    /\ pc' = IF Tail(queue) = <<>> THEN next ELSE at
    /\ UNCHANGED <<self_staff, saved, previous_sunday_workers, work, i, assigned, iteration, current>>

EnterOvernight == Enter("overnight_enter", OvernightCalls, "overnight")

AssignOvernight == Step("overnight", "supervisors_enter")

EnterSupervisors ==
    Enter("supervisors_enter", SupervisorCalls(SunSup(schedule)), "supervisors")

AssignSupervisors == Step("supervisors", "richard_enter")

EnterRichard == Enter("richard_enter", RichardCalls, "richard")

AssignRichard == Step("richard", "auxiliary_enter")

EnterAuxiliary ==
    Enter("auxiliary_enter", AuxiliaryCalls(schedule["SHARMA"][0] # OFF), "auxiliary")

AssignAuxiliary == Step("auxiliary", "regular_enter")

\* mutant: on equal room the later day wins
RECURSIVE BestDay_last_on_ties(_, _, _, _, _, _)
BestDay_last_on_ties(sch, prevw, name, day_idx, best_day, best_room) ==
    IF day_idx > 6 THEN <<best_day, best_room>>
    ELSE IF sch[name][day_idx] # OFF
         THEN BestDay_last_on_ties(sch, prevw, name, day_idx + 1, best_day, best_room)
    ELSE IF ~_can_work_day(sch, prevw, name, DAYS[day_idx + 1])
         THEN BestDay_last_on_ties(sch, prevw, name, day_idx + 1, best_day, best_room)
    ELSE LET current_count == _get_daily_count(sch, day_idx) + 1
             target == DAILY_TARGETS[DAYS[day_idx + 1]]
             room == target - current_count
         IN  IF room >= best_room
             THEN BestDay_last_on_ties(sch, prevw, name, day_idx + 1, day_idx, room)
             ELSE BestDay_last_on_ties(sch, prevw, name, day_idx + 1, best_day, best_room)

(***************************************************************************)
(* _fill_remaining: one iteration of its while loop.                       *)
(***************************************************************************)
\* the day scan of one iteration, from day_idx on: <<best_day, best_room>>,
\* best_day -1 standing for None
RECURSIVE BestDay(_, _, _, _, _, _)
BestDay(sch, prevw, name, day_idx, best_day, best_room) ==
    IF day_idx > 6 THEN <<best_day, best_room>>
    ELSE IF sch[name][day_idx] # OFF
         THEN BestDay(sch, prevw, name, day_idx + 1, best_day, best_room)
    ELSE IF ~_can_work_day(sch, prevw, name, DAYS[day_idx + 1])
         THEN BestDay(sch, prevw, name, day_idx + 1, best_day, best_room)
    ELSE LET current_count == _get_daily_count(sch, day_idx) + 1
             target == DAILY_TARGETS[DAYS[day_idx + 1]]
             room == target - current_count
         IN  IF room > best_room
             THEN BestDay(sch, prevw, name, day_idx + 1, day_idx, room)
             ELSE BestDay(sch, prevw, name, day_idx + 1, best_day, best_room)

FillIteration(st, prevw, name) ==
    LET best == BestDay(st.schedule, prevw, name, 1, -1, -999)
        best_day == best[1]
        best_room == best[2]
        can_open == _can_open_next_day(st.schedule, name, best_day)
        remaining == TargetHours - st.hours[name]
    IN  IF best_day = -1 THEN Ret(st, FALSE)
        ELSE IF remaining >= 15 /\ can_open /\ best_room >= 0
             THEN _assign_shift(st, name, best_day, "full_day")
        ELSE IF remaining >= 10 /\ can_open
             THEN _assign_shift(st, name, best_day, "extended_am")
        ELSE IF remaining >= 8 /\ can_open
             THEN _assign_shift(st, name, best_day, "morning")
        ELSE IF remaining >= 8
             THEN _assign_shift(st, name, best_day, "midday")
        ELSE IF remaining >= 7
             THEN _assign_shift(st, name, best_day, "afternoon")
        ELSE Ret(st, FALSE)

(***************************************************************************)
(* Step 6: _assign_regular_staff.                                          *)
(***************************************************************************)
overnight_males == <<"DENTON", "ORVILLE", "ROMONE">>

\* one iteration of one of the three loops: the cohort, the name and, for the
\* enumerated loops, the index
Item(cohort, name, idx) == [cohort |-> cohort, name |-> name, idx |-> idx]

RegularWork(sch) ==
    LET regular == SelectSeq(_get_staff_by_role("regular"), LAMBDA s : s # "RICHARD")
        sunday_workers == SelectSeq(regular, LAMBDA s : sch[s][0] # OFF)
        non_sunday == SelectSeq(regular, LAMBDA s : sch[s][0] = OFF
                                                 /\ ~In(s, overnight_males))
    IN  [k \in 1 .. Len(sunday_workers) |-> Item("sunday", sunday_workers[k], k - 1)]
        \o [k \in 1 .. Len(overnight_males) |-> Item("overnight", overnight_males[k], 0)]
        \o [k \in 1 .. Len(non_sunday) |-> Item("non_sunday", non_sunday[k], k - 1)]

\* a pending _try_assign call of the current name
Try(day_idx, shift_type) == [day |-> day_idx, shift |-> shift_type]

SundayWorkerPattern(sch, name, idx) ==
    LET has_overnight == \E d \in DayIdx : IsOvernight(sch[name][d])
    IN  IF has_overnight THEN <<Try(1, "midday"), Try(3, "afternoon")>>
        ELSE IF idx % 5 = 0
             THEN <<Try(1, "midday"), Try(3, "extended_am"), Try(5, "afternoon")>>
        ELSE IF idx % 5 = 1
             THEN <<Try(3, "extended_am"), Try(5, "full_day")>>
        ELSE IF idx % 5 = 2
             THEN <<Try(1, "midday"), Try(3, "extended_am"), Try(6, "afternoon")>>
        ELSE IF idx % 5 = 3
             THEN <<Try(3, "full_day"), Try(5, "extended_am")>>
        ELSE <<Try(1, "midday"), Try(5, "extended_am"), Try(6, "afternoon")>>

\* mutant: the overnight cell is looked for by its end time
OvernightDay_by_end(sch, name) ==
    IF \E d \in DayIdx : sch[name][d] # OFF /\ sch[name][d][2] = Time(8, "PM")
    THEN CHOOSE d \in DayIdx :
             /\ sch[name][d] # OFF /\ sch[name][d][2] = Time(8, "PM")
             /\ \A e \in 0 .. d - 1 :
                   ~(sch[name][e] # OFF /\ sch[name][e][2] = Time(8, "PM"))
    ELSE -1

\* the first day holding the name's overnight shift, -1 standing for None
OvernightDay(sch, name) ==
    IF \E d \in DayIdx : IsOvernight(sch[name][d])
    THEN CHOOSE d \in DayIdx : /\ IsOvernight(sch[name][d])
                               /\ \A e \in 0 .. d - 1 : ~IsOvernight(sch[name][e])
    ELSE -1

OvernightMalePattern(overnight_day) ==
    IF overnight_day = 1
    THEN <<Try(3, "extended_am"), Try(4, "full_day"), Try(6, "morning")>>
    ELSE IF overnight_day = 3
    THEN <<Try(2, "full_day"), Try(5, "extended_am"), Try(6, "afternoon")>>
    ELSE IF overnight_day = 5
    THEN <<Try(2, "full_day"), Try(4, "full_day")>>
    ELSE <<>>

NonSundayPattern(idx) ==
    IF idx % 4 = 0
    THEN <<Try(1, "full_day"), Try(3, "full_day"), Try(5, "extended_am")>>
    ELSE IF idx % 4 = 1
    THEN <<Try(2, "full_day"), Try(4, "full_day"), Try(5, "extended_am")>>
    ELSE IF idx % 4 = 2
    THEN <<Try(1, "full_day"), Try(3, "full_day"), Try(4, "extended_am")>>
    ELSE <<Try(2, "full_day"), Try(5, "full_day"), Try(6, "extended_am")>>

EnterRegular ==
    /\ pc = "regular_enter"
    /\ work' = RegularWork(schedule)
    /\ i' = 1
    /\ pc' = "regular"
    /\ UNCHANGED <<self_staff, saved, previous_sunday_workers, schedule, hours, queue, assigned,
                   iteration, current>>

\* the head of a loop iteration: the pattern of the name is chosen
RegularPattern ==
    /\ pc = "regular"
    /\ IF i > Len(work)
       THEN /\ pc' = "fine_tune_enter"
            /\ UNCHANGED <<queue, i, iteration>>
       ELSE LET item == work[i]
                skip == item.cohort = "overnight" /\ schedule[item.name][0] # OFF
                overnight_day == OvernightDay(schedule, item.name)
                pattern ==
                    CASE item.cohort = "sunday" ->
                           SundayWorkerPattern(schedule, item.name, item.idx)
                      [] item.cohort = "overnight" ->
                           OvernightMalePattern(overnight_day)
                      [] OTHER -> NonSundayPattern(item.idx)
            IN  IF skip
                THEN /\ i' = i + 1
                     /\ pc' = pc
                     /\ UNCHANGED <<queue, iteration>>
                ELSE IF item.cohort = "overnight" /\ overnight_day = -1
                THEN \* (None + 1) % 7 raises TypeError
                     /\ pc' = "raised"
                     /\ UNCHANGED <<queue, i, iteration>>
                ELSE /\ queue' = pattern
                     /\ iteration' = 0
                     /\ pc' = IF pattern = <<>> THEN "regular_fill" ELSE "regular_try"
                     /\ i' = i
    /\ UNCHANGED <<self_staff, saved, previous_sunday_workers, schedule, hours, work, assigned, current>>

TryAssign ==
    /\ pc = "regular_try"
    /\ queue # <<>>
    /\ Commit(_try_assign(Now, previous_sunday_workers, work[i].name,
                          Head(queue).day, Head(queue).shift).st)
    /\ queue' = Tail(queue)
    /\ pc' = IF Tail(queue) = <<>> THEN "regular_fill" ELSE pc
    /\ UNCHANGED <<self_staff, saved, previous_sunday_workers, work, i, assigned, iteration, current>>

FillRemaining ==
    /\ pc = "regular_fill"
    /\ LET name == work[i].name
           r == FillIteration(Now, previous_sunday_workers, name)
       IN  IF hours[name] < TargetHours /\ iteration < MaxIterations
           THEN /\ Commit(r.st)
                /\ iteration' = iteration + 1
                /\ IF r.ok
                   THEN /\ pc' = pc
                        /\ i' = i
                   ELSE /\ pc' = "regular"
                        /\ i' = i + 1
           ELSE /\ pc' = "regular"
                /\ i' = i + 1
                /\ UNCHANGED <<schedule, hours, iteration>>
    /\ UNCHANGED <<self_staff, saved, previous_sunday_workers, queue, work, assigned, current>>

\* mutant: every extension asks for the full three hours
RECURSIVE TryExtend_full_three(_, _, _, _)
TryExtend_full_three(st, name, day_idx, needed) ==
    IF day_idx > 6 THEN Ret(st, FALSE)
    ELSE IF st.schedule[name][day_idx] = OFF
         THEN TryExtend_full_three(st, name, day_idx + 1, needed)
    ELSE LET r == _extend_shift(st, name, day_idx, MaxExtend)
         IN  IF r.ok THEN r
             ELSE TryExtend_full_three(st, name, day_idx + 1, needed)

(***************************************************************************)
(* Step 7: _fine_tune_hours.                                               *)
(***************************************************************************)
\* the first for loop of one while iteration, from day_idx on
RECURSIVE TryExtend(_, _, _, _)
TryExtend(st, name, day_idx, needed) ==
    IF day_idx > 6 THEN Ret(st, FALSE)
    ELSE IF st.schedule[name][day_idx] = OFF
         THEN TryExtend(st, name, day_idx + 1, needed)
    ELSE LET r == _extend_shift(st, name, day_idx, Min(needed, 3))
         IN  IF r.ok THEN r ELSE TryExtend(st, name, day_idx + 1, needed)

\* the second for loop of one while iteration, from day_idx on
RECURSIVE TryAdd(_, _, _, _, _)
TryAdd(st, prevw, name, day_idx, needed) ==
    IF day_idx > 6 THEN Ret(st, FALSE)
    ELSE IF ~_can_work_day(st.schedule, prevw, name, DAYS[day_idx + 1])
         THEN TryAdd(st, prevw, name, day_idx + 1, needed)
    ELSE IF st.schedule[name][day_idx] # OFF
         THEN TryAdd(st, prevw, name, day_idx + 1, needed)
    ELSE LET can_open == _can_open_next_day(st.schedule, name, day_idx)
             shift_type ==
                 IF can_open
                 THEN (IF needed >= 10 THEN "extended_am"
                       ELSE IF needed >= 8 THEN "morning"
                       ELSE "afternoon")
                 ELSE (IF needed >= 8 THEN "midday" ELSE "afternoon")
             r == _assign_shift(st, name, day_idx, shift_type)
         IN  IF r.ok THEN r ELSE TryAdd(st, prevw, name, day_idx + 1, needed)

\* mutant: a shift is added before any extension is tried
FineTuneIteration_add_first(st, prevw, name, cur) ==
    LET needed == TargetHours - cur
        add == TryAdd(st, prevw, name, 1, needed)
    IN  IF add.ok THEN add ELSE TryExtend(st, name, 0, needed)

\* mutant: reconciliation only extends, it never adds a shift
FineTuneIteration_extend_only(st, prevw, name, cur) ==
    TryExtend(st, name, 0, TargetHours - cur)

FineTuneIteration(st, prevw, name, cur) ==
    LET needed == TargetHours - cur
        ext == TryExtend(st, name, 0, needed)
    IN  IF ext.ok THEN ext ELSE TryAdd(st, prevw, name, 1, needed)

EnterFineTune ==
    /\ pc = "fine_tune_enter"
    /\ work' = RosterNames
    /\ i' = 1
    /\ pc' = "fine_tune"
    /\ UNCHANGED <<self_staff, saved, previous_sunday_workers, schedule, hours, queue, assigned,
                   iteration, current>>

\* the head of the for loop: current is read, the specialist is skipped
FineTuneName ==
    /\ pc = "fine_tune"
    /\ IF i > Len(work)
       THEN /\ pc' = "done"
            /\ UNCHANGED <<i, current>>
       ELSE /\ current' = hours[work[i]]
            /\ IF staff[work[i]].is_overnight_specialist
               THEN /\ i' = i + 1
                    /\ pc' = pc
               ELSE /\ i' = i
                    /\ pc' = "fine_tune_loop"
    /\ UNCHANGED <<self_staff, saved, previous_sunday_workers, schedule, hours, queue, work, assigned,
                   iteration>>

\* mutant: the while loop is left after its first successful iteration
FineTuneLoop_single_pass ==
    /\ pc = "fine_tune_loop"
    /\ LET name == work[i]
           r == FineTuneIteration(Now, previous_sunday_workers, name, current)
       IN  IF current < TargetHours
           THEN /\ Commit(r.st)
                /\ pc' = "fine_tune"
                /\ i' = i + 1
                /\ current' = r.st.hours[name]
           ELSE /\ pc' = "fine_tune"
                /\ i' = i + 1
                /\ UNCHANGED <<schedule, hours, current>>
    /\ UNCHANGED <<self_staff, saved, previous_sunday_workers, queue, work, assigned, iteration>>

\* one evaluation of "while current < 40" and the iteration it admits
FineTuneLoop ==
    /\ pc = "fine_tune_loop"
    /\ LET name == work[i]
           r == FineTuneIteration(Now, previous_sunday_workers, name, current)
       IN  IF current < TargetHours
           THEN /\ Commit(r.st)
                /\ IF r.ok
                   THEN /\ current' = r.st.hours[name]
                        /\ pc' = pc
                        /\ i' = i
                   ELSE /\ pc' = "fine_tune"
                        /\ i' = i + 1
                        /\ UNCHANGED current
           ELSE /\ pc' = "fine_tune"
                /\ i' = i + 1
                /\ UNCHANGED <<schedule, hours, current>>
    /\ UNCHANGED <<self_staff, saved, previous_sunday_workers, queue, work, assigned, iteration>>

\* the record the storage collaborator keeps between runs: the list as saved
save_sunday_workers(sunday_workers) == sunday_workers

\* the next run is given the record of the last run
get_previous_sunday_workers(record) == record

(***************************************************************************)
(* The caller: the Sunday workers of a finished run are saved and given to *)
(* the generator of the next week.                                         *)
(***************************************************************************)
NextWeek ==
    /\ pc = "done"
    /\ saved' = saved
    /\ self_staff' = self_staff
    /\ previous_sunday_workers' =
           get_previous_sunday_workers(save_sunday_workers(get_sunday_workers(schedule)))
    /\ schedule' = InitSchedule
    /\ hours' = InitHours
    /\ pc' = "sunday_supervisor"
    /\ queue' = <<>>
    /\ work' = <<>>
    /\ i' = 1
    /\ assigned' = 0
    /\ iteration' = 0
    /\ current' = 0

Next ==
    \/ AssignSundaySupervisor
    \/ AssignSundayAuxiliary
    \/ SundayRegularList
    \/ AssignSundayRegular
    \/ AssignSundayOvernight
    \/ EnterOvernight
    \/ AssignOvernight
    \/ EnterSupervisors
    \/ AssignSupervisors
    \/ EnterRichard
    \/ AssignRichard
    \/ EnterAuxiliary
    \/ AssignAuxiliary
    \/ EnterRegular
    \/ RegularPattern
    \/ TryAssign
    \/ FillRemaining
    \/ EnterFineTune
    \/ FineTuneName
    \/ FineTuneLoop
    \/ NextWeek

Spec == Init /\ [][Next]_vars

(***************************************************************************)
(* Reading the state.                                                      *)
(***************************************************************************)
Done == pc = "done"

\* the <<start, end>> pairs of the catalog
CatalogShapes == {<<SHIFTS[t][1], SHIFTS[t][2]>> : t \in DOMAIN SHIFTS}

\* a cell whose end was moved by _extend_shift
Extended(cell) == cell # OFF /\ cell \notin CatalogShapes

Supervisors == {n \in Names : staff[n].is_supervisor}

\* the cell covers the hour h .. h+1 of its day
Covers(cell, h) ==
    /\ cell # OFF
    /\ ~IsOvernight(cell)
    /\ _parse_hour(cell[1]) <= h
    /\ h < _parse_hour(cell[2])

(***************************************************************************)
(* C1.  Anchor rotation: when a run has finished, every staff member named *)
(* in previous_sunday_workers, the overnight specialist included, is OFF   *)
(* on Sunday.                                                              *)
(***************************************************************************)
C1_AnchorRotation ==
    Done => \A n \in Names :
                In(n, previous_sunday_workers) => schedule[n][0] = OFF

(***************************************************************************)
(* C2.  Rest after close inside the week: in the final schedule, for every *)
(* staff member and every pair of consecutive days Sunday..Saturday, a     *)
(* shift that ends at 9:00 PM (by assignment or by extension) is followed  *)
(* by OFF or by a shift that does not start at 6:00 AM.                    *)
(***************************************************************************)
C2_RestAfterClose ==
    Done => \A n \in Names : \A d \in 0 .. 5 :
                _closes_at_9pm(schedule, n, d) =>
                    \/ schedule[n][d + 1] = OFF
                    \/ schedule[n][d + 1][1] # Time(6, "AM")

\* a finished run in which a shift reached 9:00 PM by extension and its
\* holder works the next day
C2_Witness ==
    /\ Done
    /\ \E n \in Names : \E d \in 0 .. 5 :
           /\ Extended(schedule[n][d])
           /\ _closes_at_9pm(schedule, n, d)
           /\ schedule[n][d + 1] # OFF

(***************************************************************************)
(* C3.  Rest after close wraps around the week: in the final schedule no   *)
(* staff member has a Saturday shift ending at 9:00 PM together with a     *)
(* Sunday shift starting at 6:00 AM.                                       *)
(***************************************************************************)
C3_RestAfterCloseWraps ==
    Done => \A n \in Names :
                ~(/\ _closes_at_9pm(schedule, n, 6)
                  /\ schedule[n][0] # OFF
                  /\ schedule[n][0][1] = Time(6, "AM"))

(***************************************************************************)
(* C4.  Overnight coverage: in the final schedule each of the 7 nights has *)
(* exactly one staff member on the overnight shift 8:00 PM - 6:00 AM.      *)
(***************************************************************************)
C4_OvernightCoverage ==
    Done => \A d \in DayIdx :
                Cardinality({n \in Names :
                                schedule[n][d] = <<Time(8, "PM"), Time(6, "AM")>>}) = 1

\* a finished run whose Friday-night male also worked the Sunday day crew
C4_Witness ==
    /\ Done
    /\ previous_sunday_workers # <<>>
    /\ IsOvernight(schedule["DENTON"][5])
    /\ schedule["DENTON"][0] # OFF

(***************************************************************************)
(* C5.  Overnight eligibility: in every state of a run, every cell that    *)
(* holds the overnight shift belongs to a staff member who is male and not *)
(* a supervisor.                                                           *)
(***************************************************************************)
C5_OvernightEligibility ==
    \A n \in Names : \A d \in DayIdx :
        IsOvernight(schedule[n][d]) =>
            staff[n].is_male /\ ~staff[n].is_supervisor

\* mid-run, the specialist and another male both hold a night
C5_Witness ==
    /\ pc = "overnight"
    /\ IsOvernight(schedule["DELON"][0])
    /\ \E n \in Names \ {"DELON"} : \E d \in DayIdx : IsOvernight(schedule[n][d])

(***************************************************************************)
(* C6.  Hour ceiling: in every state of a run no staff member's            *)
(* accumulated hours exceed 48.                                            *)
(***************************************************************************)
C6_HourCeiling == \A n \in Names : hours[n] <= HourCap

\* a staff member above the 40-hour target who holds an extended shift
C6_Witness ==
    \E n \in Names :
        /\ hours[n] > TargetHours
        /\ \E d \in DayIdx : Extended(schedule[n][d])

(***************************************************************************)
(* C7.  Fixed day off honored: in the final schedule every staff member is *)
(* OFF on each day listed in their fixed_day_off.                          *)
(***************************************************************************)
C7_FixedDayOff ==
    Done => \A n \in Names : \A d \in DayIdx :
                DAYS[d + 1] \in staff[n].fixed_day_off => schedule[n][d] = OFF

\* a finished run in which RICHARD, named in the rotation list, has all
\* five of his evening shifts
C7_Witness ==
    /\ Done
    /\ In("RICHARD", previous_sunday_workers)
    /\ \A d \in {1, 2, 4, 5, 6} : schedule["RICHARD"][d] # OFF

(***************************************************************************)
(* C8.  Must-work honored: in the final schedule every staff member has a  *)
(* shift on each day listed in their must_work.                            *)
(***************************************************************************)
C8_MustWork ==
    Done => \A n \in Names : \A d \in DayIdx :
                DAYS[d + 1] \in staff[n].must_work => schedule[n][d] # OFF

\* a finished run in which RICHARD works his Saturday 12:00 PM - 9:00 PM
C8_Witness ==
    /\ Done
    /\ schedule["RICHARD"][6] = <<Time(12, "PM"), Time(9, "PM")>>
    /\ hours["RICHARD"] = 41

(***************************************************************************)
(* C9.  Minimum hours: after generate_schedule every staff member's total  *)
(* hours is at least 40.                                                   *)
(***************************************************************************)
C9_MinimumHours == Done => \A n \in Names : hours[n] >= TargetHours

\* a finished run in which a supervisor got every shift from the
\* reconciliation pass: excluded from Sunday, with extended shifts
C9_Witness ==
    /\ Done
    /\ In("KEVAUGHN", previous_sunday_workers)
    /\ \E d \in DayIdx : Extended(schedule["KEVAUGHN"][d])
    /\ hours["KEVAUGHN"] >= TargetHours

(***************************************************************************)
(* C10.  Supervisor presence: in every finished run whose rotation list    *)
(* leaves a supervisor eligible for Sunday, on each of the 7 days every    *)
(* hour from 6:00 AM to 9:00 PM is covered by the shift of a supervisor.   *)
(***************************************************************************)
C10_SupervisorPresence ==
    (Done /\ \E s \in Supervisors : ~In(s, previous_sunday_workers)) =>
        \A d \in DayIdx : \A h \in 6 .. CloseHour - 1 :
            \E s \in Supervisors : Covers(schedule[s][d], h)

(***************************************************************************)
(* C11.  Supervisor cap per day: in the final schedule no day has more     *)
(* than 3 supervisors with a shift and Sunday has at most 1, shifts added  *)
(* by the reconciliation pass included.                                    *)
(***************************************************************************)
SupervisorsOn(d) == {s \in Supervisors : schedule[s][d] # OFF}

C11_SupervisorCap ==
    Done => /\ \A d \in DayIdx : Cardinality(SupervisorsOn(d)) <= 3
            /\ Cardinality(SupervisorsOn(0)) <= 1

(***************************************************************************)
(* C12.  Sunday crew: once _assign_sunday has returned, and in every later *)
(* state of the run, the Sunday column is exactly the first supervisor,    *)
(* the first auxiliary and the first five regular staff other than RICHARD *)
(* that are not on the rotation list (fewer when fewer are left), each on  *)
(* 6:00 AM - 9:00 PM, and the overnight specialist on 8:00 PM - 6:00 AM;   *)
(* with an empty list these are DAILY_TARGETS['SUNDAY'] = 8 people.        *)
(***************************************************************************)
InAssignSunday ==
    pc \in {"sunday_supervisor", "sunday_auxiliary", "sunday_regular_list",
            "sunday_regular", "sunday_overnight"}

\* the first k names of the list that are not on the rotation list
FirstFree(list, k) ==
    {list[j] : j \in {m \in 1 .. Len(list) :
        /\ ~In(list[m], previous_sunday_workers)
        /\ Cardinality({l \in 1 .. m - 1 :
                           ~In(list[l], previous_sunday_workers)}) < k}}

SundayDayCrew ==
    FirstFree(_get_staff_by_role("supervisors"), 1)
    \cup FirstFree(_get_staff_by_role("auxiliary"), 1)
    \cup FirstFree(SelectSeq(_get_staff_by_role("regular"), LAMBDA s : s # "RICHARD"),
                   SundayAttendants)

InFineTune == pc \in {"fine_tune_enter", "fine_tune", "fine_tune_loop"}

C13_SpecialistPattern ==
    (InFineTune \/ Done) =>
        /\ \A d \in DayIdx :
               schedule["DELON"][d] =
                   IF d \in {0, 2, 4, 6} THEN <<Time(8, "PM"), Time(6, "AM")>>
                   ELSE OFF
        /\ hours["DELON"] = 40

\* the reconciliation loop has gone past DELON in a run that names him on
\* the rotation list
C13_Witness ==
    /\ pc = "fine_tune"
    /\ i > 15
    /\ work[15] = "DELON"
    /\ In("DELON", previous_sunday_workers)
    /\ hours["DELON"] = 40

(***************************************************************************)
(* C14.  Auxiliary pair: after generate_schedule SHARMA and SASH both have *)
(* exactly 40 hours, whichever of them worked Sunday, or neither.          *)
(***************************************************************************)
C14_AuxiliaryPair ==
    Done => hours["SHARMA"] = 40 /\ hours["SASH"] = 40

\* a finished run in which the list kept both auxiliaries off Sunday and
\* the reconciliation pass stretched SASH's Tuesday morning shift to 9:00 PM
C14_Witness ==
    /\ Done
    /\ schedule["SHARMA"][0] = OFF
    /\ schedule["SASH"][0] = OFF
    /\ schedule["SASH"][2] = <<Time(6, "AM"), Time(9, "PM")>>
    /\ hours["SHARMA"] = 40

(***************************************************************************)
(* C15.  Opening and closing coverage: in the final schedule, on every day *)
(* at least MIN_OPENERS non-supervisor staff have a shift starting at      *)
(* 6:00 AM and at least MIN_CLOSERS non-supervisor staff have a shift      *)
(* ending at 9:00 PM.                                                      *)
(***************************************************************************)
Openers(d) ==
    {n \in Names \ Supervisors :
        schedule[n][d] # OFF /\ schedule[n][d][1] = Time(6, "AM")}

Closers(d) == {n \in Names \ Supervisors : _closes_at_9pm(schedule, n, d)}

C15_OpenCloseCoverage ==
    Done => \A d \in DayIdx :
                /\ Cardinality(Openers(d)) >= MIN_OPENERS
                /\ Cardinality(Closers(d)) >= MIN_CLOSERS

(***************************************************************************)
(* C16.  Shift length bounds: in every reachable state every non-OFF cell  *)
(* lasts at least 7 and at most 15 hours (end minus start, wrapping past   *)
(* midnight), cells whose end _extend_shift moved included.                *)
(***************************************************************************)
MinShiftHours == 7

MaxShiftHours == 15

Duration(cell) == _calc_hours(cell[1], cell[2])

C16_ShiftLength ==
    \A n \in Names : \A d \in DayIdx :
        schedule[n][d] # OFF =>
            /\ Duration(schedule[n][d]) >= MinShiftHours
            /\ Duration(schedule[n][d]) <= MaxShiftHours

\* a cell whose end was moved to a time no catalog shift has, next to a
\* shortest (7 h) and a longest (15 h) cell
C16_Witness ==
    /\ \E n \in Names : \E d \in DayIdx : Extended(schedule[n][d])
    /\ \E n \in Names : \E d \in DayIdx :
          schedule[n][d] # OFF /\ Duration(schedule[n][d]) = MinShiftHours
    /\ \E n \in Names : \E d \in DayIdx :
          schedule[n][d] # OFF /\ Duration(schedule[n][d]) = MaxShiftHours

(***************************************************************************)
(* C17.  No double-booking and no overwrite.  A cell holds one shift; no   *)
(* step of a run changes the start of a booked cell or frees it, and       *)
(* between phases a staff member's hours are exactly the hours of the      *)
(* cells they hold.  _assign_shift returns False and leaves schedule and   *)
(* hours as they are when the cell is not OFF, when the shift starts at    *)
(* 6:00 AM and the day before closes at 9:00 PM, or when the shift would   *)
(* bring the hours above 48: for every call a run makes, and, in the       *)
(* states between phases and at the end of a run, for every staff member,  *)
(* day and shift type.                                                     *)
(***************************************************************************)
CellHours(cell) == IF cell = OFF THEN 0 ELSE Duration(cell)

WeekHours(sch, n) ==
    CellHours(sch[n][0]) + CellHours(sch[n][1]) + CellHours(sch[n][2])
    + CellHours(sch[n][3]) + CellHours(sch[n][4]) + CellHours(sch[n][5])
    + CellHours(sch[n][6])

Booked(n, d) == schedule[n][d] # OFF

OpensAfterClose(n, d, t) ==
    /\ SHIFTS[t][1] = Time(6, "AM")
    /\ d > 0
    /\ _closes_at_9pm(schedule, n, d - 1)

OverCap(n, t) == hours[n] + SHIFTS[t][3] > HourCap

\* the _assign_shift call the next step of a phase or of _try_assign makes
PendingCall ==
    IF pc \in {"overnight", "supervisors", "richard", "auxiliary"} /\ queue # <<>>
    THEN IF Head(queue).if_off /\ Booked(Head(queue).name, Head(queue).day)
         THEN <<>>
         ELSE <<[name |-> Head(queue).name, day |-> Head(queue).day,
                 shift |-> Head(queue).shift]>>
    ELSE IF pc = "regular_try" /\ queue # <<>>
    THEN LET name == work[i].name
             day_idx == Head(queue).day
             shift_type == Head(queue).shift
         IN  IF Booked(name, day_idx)
                \/ ~_can_work_day(schedule, previous_sunday_workers, name,
                                  DAYS[day_idx + 1])
             THEN <<>>
             ELSE IF SHIFTS[shift_type][1] = Time(6, "AM")
                     /\ ~_can_open_next_day(schedule, name, day_idx)
             THEN <<[name |-> name, day |-> day_idx, shift |-> "midday"]>>
             ELSE <<[name |-> name, day |-> day_idx, shift |-> shift_type]>>
    ELSE <<>>

Refused(c) ==
    Booked(c.name, c.day) \/ OpensAfterClose(c.name, c.day, c.shift)
    \/ OverCap(c.name, c.shift)

NoOverwriteStep ==
    pc # "done" =>
        \A n \in Names : \A d \in DayIdx :
            Booked(n, d) => /\ schedule'[n][d] # OFF
                            /\ schedule'[n][d][1] = schedule[n][d][1]

RefusalStep ==
    (PendingCall # <<>> /\ Refused(PendingCall[1])) =>
        /\ ~_assign_shift(Now, PendingCall[1].name, PendingCall[1].day,
                          PendingCall[1].shift).ok
        /\ schedule' = schedule
        /\ hours' = hours

\* before the supervisors, the regular staff and the fine tuning are dealt
\* with, and at the end of a run
BetweenPhases ==
    pc \in {"supervisors_enter", "regular_enter", "fine_tune_enter", "done"}

HoursMatch == \A n \in Names : hours[n] = WeekHours(schedule, n)

RefusalAnywhere ==
    \A n \in Names : \A d \in DayIdx : \A t \in DOMAIN SHIFTS :
        (Booked(n, d) \/ OpensAfterClose(n, d, t) \/ OverCap(n, t))
            => LET r == _assign_shift(Now, n, d, t)
               IN  ~r.ok /\ r.st = Now

C17_NoOverwrite ==
    /\ [](BetweenPhases => HoursMatch /\ RefusalAnywhere)
    /\ [][NoOverwriteStep /\ RefusalStep]_vars

\* the phase's next call is about to be turned down for the 48 hour cap
\* alone, while some other free cell cannot take an opening after a close
C17_Witness ==
    /\ pc \in {"overnight", "supervisors", "richard", "auxiliary"}
    /\ queue # <<>>
    /\ ~Booked(Head(queue).name, Head(queue).day)
    /\ ~OpensAfterClose(Head(queue).name, Head(queue).day, Head(queue).shift)
    /\ OverCap(Head(queue).name, Head(queue).shift)
    /\ \E n \in Names : \E d \in DayIdx :
          ~Booked(n, d) /\ OpensAfterClose(n, d, "morning")

(***************************************************************************)
(* C18.  Rotation state output: when a run is over, the list handed to the *)
(* next run as previous_sunday_workers holds exactly the staff whose       *)
(* Sunday cell is not OFF, the overnight worker included, each once and in *)
(* roster order.                                                           *)
(***************************************************************************)
RosterPos(n) == CHOOSE k \in 1 .. Len(RosterNames) : RosterNames[k] = n

InRosterOrder(list) ==
    \A a \in 1 .. Len(list) : \A b \in 1 .. Len(list) :
        a < b => /\ list[a] \in Names
                 /\ list[b] \in Names
                 /\ RosterPos(list[a]) < RosterPos(list[b])

SundayNames == {n \in Names : schedule[n][0] # OFF}

C18_RotationOutput ==
    [][pc = "done" =>
          /\ {previous_sunday_workers'[k] :
                 k \in 1 .. Len(previous_sunday_workers')} = SundayNames
          /\ InRosterOrder(previous_sunday_workers')]_vars

\* a run made from a handed-over list that holds a day crew together with
\* its overnight worker: the next supervisor and auxiliary take the Sunday
C18_Witness ==
    /\ Done
    /\ Len(previous_sunday_workers) = DAILY_TARGETS["SUNDAY"]
    /\ In("DELON", previous_sunday_workers)
    /\ In("KEVAUGHN", previous_sunday_workers)
    /\ In("SHARMA", previous_sunday_workers)
    /\ {"MELLISA", "SASH"} \subseteq SundayNames
    /\ ~("KEVAUGHN" \in SundayNames)

(***************************************************************************)
(* Two instances on the same names.  The first instance's summary is kept; *)
(* a second ShiftGenerator is built from the same roster and the same      *)
(* previous_sunday_workers names, in the same or another order.            *)
(***************************************************************************)
RECURSIVE SumHours(_, _)
SumHours(hrs, names) ==
    IF names = <<>> THEN 0 ELSE hrs[Head(names)] + SumHours(hrs, Tail(names))

get_summary(sch, hrs) ==
    [schedule       |-> sch,
     hours          |-> [name \in Names |-> hrs[name]],
     daily_counts   |-> [day \in {DAYS[k] : k \in 1 .. Len(DAYS)} |->
                            Cardinality({s \in Names :
                                sch[s][(CHOOSE k \in 1 .. Len(DAYS) :
                                            DAYS[k] = day) - 1] # OFF})],
     sunday_workers |-> get_sunday_workers(sch),
     total_hours    |-> SumHours(hrs, RosterNames),
     avg_hours      |-> [num |-> SumHours(hrs, RosterNames),
                         den |-> Len(RosterNames)]]

Swap(list, a, b) ==
    [k \in 1 .. Len(list) |->
        IF k = a THEN list[b] ELSE IF k = b THEN list[a] ELSE list[k]]

Rotate(list) == IF list = <<>> THEN list ELSE Tail(list) \o <<Head(list)>>

\* the list itself, every exchange of two of its names, and its rotations
Reorderings(list) ==
    {list, Rotate(list), Rotate(Rotate(list))}
    \cup {Swap(list, a, b) : a \in 1 .. Len(list), b \in 1 .. Len(list)}

OrderInputs ==
    {AsList(S) : S \in {T \in SUBSET {PrevNames[k] : k \in 1 .. Len(PrevNames)} :
                          Cardinality(T) <= MaxOrder}}
    \cup RoleLists

InitOrder ==
    /\ self_staff = Dict(STAFF_ROSTER)
    /\ previous_sunday_workers \in OrderInputs
    /\ saved = <<>>
    /\ schedule = InitSchedule
    /\ hours = InitHours
    /\ pc = "sunday_supervisor"
    /\ queue = <<>>
    /\ work = <<>>
    /\ i = 1
    /\ assigned = 0
    /\ iteration = 0
    /\ current = 0

SecondInstance ==
    /\ pc = "done"
    /\ saved = <<>>
    /\ saved' = <<get_summary(schedule, hours)>>
    /\ self_staff' = self_staff
    /\ previous_sunday_workers' \in Reorderings(previous_sunday_workers)
    /\ schedule' = InitSchedule
    /\ hours' = InitHours
    /\ pc' = "sunday_supervisor"
    /\ queue' = <<>>
    /\ work' = <<>>
    /\ i' = 1
    /\ assigned' = 0
    /\ iteration' = 0
    /\ current' = 0

NextOrder ==
    \/ AssignSundaySupervisor
    \/ AssignSundayAuxiliary
    \/ SundayRegularList
    \/ AssignSundayRegular
    \/ AssignSundayOvernight
    \/ EnterOvernight
    \/ AssignOvernight
    \/ EnterSupervisors
    \/ AssignSupervisors
    \/ EnterRichard
    \/ AssignRichard
    \/ EnterAuxiliary
    \/ AssignAuxiliary
    \/ EnterRegular
    \/ RegularPattern
    \/ TryAssign
    \/ FillRemaining
    \/ EnterFineTune
    \/ FineTuneName
    \/ FineTuneLoop
    \/ SecondInstance

SpecOrder == InitOrder /\ [][NextOrder]_vars

(***************************************************************************)
(* C19.  Determinism: a second instance built from the same roster and the *)
(* same previous_sunday_workers names, in the same or in another order,    *)
(* ends with the same schedule, hours, daily counts and Sunday-worker list *)
(* as the first.                                                           *)
(***************************************************************************)
C19_Determinism ==
    (Done /\ saved # <<>>) => get_summary(schedule, hours) = saved[1]

\* the second instance has finished on a list that is out of roster order
\* and keeps the first supervisor and the first auxiliary from the Sunday
C19_Witness ==
    /\ Done
    /\ saved # <<>>
    /\ ~InRosterOrder(previous_sunday_workers)
    /\ In("KEVAUGHN", previous_sunday_workers)
    /\ In("SHARMA", previous_sunday_workers)
    /\ saved[1].sunday_workers # <<>>

(***************************************************************************)
(* A run is not interrupted: generate_schedule is one synchronous call, so *)
(* a step of a run that can be taken is taken.  Whether another week is    *)
(* asked for is left open.                                                 *)
(***************************************************************************)
RunStep == Next /\ pc # "done"

SpecRun == InitOrder /\ [][Next]_vars /\ WF_vars(RunStep)

(***************************************************************************)
(* C20.  Shortfalls are not errors: whatever the previous_sunday_workers   *)
(* list (every supervisor, every auxiliary, every regular attendant, the   *)
(* whole roster, names that are not on the roster), no run raises and      *)
(* every run that is started goes through its phases to the end.           *)
(***************************************************************************)
C20_NoRaise == [](pc # "raised") /\ []<>Done

\* a run ended although every supervisor was on the list and none of them
\* took the Sunday
C20_Witness ==
    /\ Done
    /\ previous_sunday_workers = _get_staff_by_role("supervisors")
    /\ \A s \in Supervisors : schedule[s][0] = OFF
    /\ Cardinality(SundayNames) < DAILY_TARGETS["SUNDAY"]

(***************************************************************************)
(* Configurations.  The constructor is given the roster of the shop or a   *)
(* roster with a configuration error: a second entry under a name that is  *)
(* already there, or a fixed_day_off / must_work entry that is not one of  *)
(* the DAYS tokens.                                                        *)
(***************************************************************************)
\* the names a second entry is written for
ConfigNames == {"KEVAUGHN", "TANISHA", "DENTON", "SHARMA"}

\* tokens that are not in DAYS
BadTokens == {"Sunday", "MONDAYS"}

SetAt(list, k, field, value) ==
    [list EXCEPT ![k] = [list[k] EXCEPT ![field] = value]]

ConfigRosters ==
    {STAFF_ROSTER}
    \cup {Append(STAFF_ROSTER,
                 StaffMember(n, sup, FALSE, FALSE, FALSE, {}, {})) :
             n \in ConfigNames, sup \in BOOLEAN}
    \cup {SetAt(STAFF_ROSTER, k, "fixed_day_off",
                (STAFF_ROSTER[k].fixed_day_off \ {"SUNDAY"}) \cup {t}) :
             k \in 1 .. Len(STAFF_ROSTER), t \in BadTokens}
    \cup {SetAt(STAFF_ROSTER, k, "must_work", {t}) :
             k \in {j \in 1 .. Len(STAFF_ROSTER) : STAFF_ROSTER[j].must_work # {}},
             t \in BadTokens}

DaySet == {DAYS[k] : k \in 1 .. Len(DAYS)}

ValidRoster(staff_roster) ==
    /\ \A a \in 1 .. Len(staff_roster) : \A b \in 1 .. Len(staff_roster) :
          a # b => staff_roster[a].name # staff_roster[b].name
    /\ \A k \in 1 .. Len(staff_roster) :
          /\ staff_roster[k].fixed_day_off \subseteq DaySet
          /\ staff_roster[k].must_work \subseteq DaySet

InitConfig ==
    /\ self_staff \in {Dict(r) : r \in ConfigRosters}
    /\ previous_sunday_workers = <<>>
    /\ saved = <<>>
    /\ schedule = InitSchedule
    /\ hours = InitHours
    /\ pc = "sunday_supervisor"
    /\ queue = <<>>
    /\ work = <<>>
    /\ i = 1
    /\ assigned = 0
    /\ iteration = 0
    /\ current = 0

SpecConfig == InitConfig /\ [][Next]_vars

(***************************************************************************)
(* C21.  Configuration errors abort generation: with a roster that names   *)
(* someone twice, or whose fixed_day_off / must_work holds a token that is *)
(* not one of the 7 DAYS, no run ever ends with a schedule.                *)
(***************************************************************************)
C21_ConfigErrorsAbort == ~ValidRoster(self_staff.roster) => ~Done

(***************************************************************************)
(* C22.  Reconciliation extension step.  A step of _fine_tune_hours that   *)
(* moves the end of a shift moves the end of exactly one cell of the       *)
(* current staff member, of a shift that is not overnight and ends before  *)
(* 9:00 PM, later by exactly min(40 - hours, 3, 21 - end hour), and adds   *)
(* the same amount to that member's hours: the end never passes 9:00 PM    *)
(* and the total never passes 40.  Whenever the pass is at work,           *)
(* _extend_shift on a cell of the current member that is OFF, overnight or *)
(* ends at 9:00 PM returns False and changes nothing.                      *)
(***************************************************************************)
\* the cells whose end the step moves
Moved ==
    {c \in Names \X DayIdx :
        /\ schedule[c[1]][c[2]] # OFF
        /\ schedule'[c[1]][c[2]] # OFF
        /\ schedule'[c[1]][c[2]][2] # schedule[c[1]][c[2]][2]}

Min3(a, b, c) == Min(Min(a, b), c)

ExtensionStep ==
    Moved # {} =>
        /\ pc = "fine_tune_loop"
        /\ \E d \in DayIdx :
              LET n == work[i]
                  old == schedule[n][d]
                  new == schedule'[n][d]
                  by == Min3(TargetHours - hours[n], MaxExtend,
                             CloseHour - _parse_hour(old[2]))
              IN  /\ Moved = {<<n, d>>}
                  /\ ~IsOvernight(old)
                  /\ _parse_hour(old[2]) < CloseHour
                  /\ by >= 1
                  /\ new[1] = old[1]
                  /\ _parse_hour(new[2]) = _parse_hour(old[2]) + by
                  /\ _parse_hour(new[2]) <= CloseHour
                  /\ hours' = [hours EXCEPT ![n] = @ + by]
                  /\ hours'[n] <= TargetHours
                  /\ schedule' = [schedule EXCEPT ![n][d] = new]

ExtensionRefused ==
    (pc = "fine_tune_loop" /\ i <= Len(work)) =>
        \A d \in DayIdx : \A extra \in 1 .. MaxExtend :
            LET cell == schedule[work[i]][d]
            IN  (cell = OFF \/ IsOvernight(cell) \/ _parse_hour(cell[2]) >= CloseHour)
                    => LET r == _extend_shift(Now, work[i], d, extra)
                       IN  ~r.ok /\ r.st = Now

C22_ExtensionStep == [](ExtensionRefused) /\ [][ExtensionStep]_vars

\* a member one hour short has just been extended by that one hour, on a
\* shift that could have taken more: its end is one hour after a catalog end
C22_Witness ==
    /\ pc = "fine_tune_loop"
    /\ i <= Len(work)
    /\ current = TargetHours
    /\ hours[work[i]] = TargetHours
    /\ \E d \in DayIdx :
          schedule[work[i]][d] \in {<<Time(10, "AM"), Time(7, "PM")>>,
                                   <<Time(6, "AM"), Time(3, "PM")>>,
                                   <<Time(6, "AM"), Time(5, "PM")>>}

(***************************************************************************)
(* C23.  Reconciliation terminates: every _fill_remaining loop and the     *)
(* _fine_tune_hours pass come to an end, and when the pass leaves a staff  *)
(* member, and still when the run is over, every staff member other than   *)
(* the specialist has at least 40 hours, or has no shift that can be       *)
(* extended and no Monday-Saturday day that is OFF and passes              *)
(* _can_work_day.                                                          *)
(***************************************************************************)
NoExtendable(sch, n) ==
    \A d \in DayIdx :
        \/ sch[n][d] = OFF
        \/ IsOvernight(sch[n][d])
        \/ _parse_hour(sch[n][d][2]) >= CloseHour

NoAddable(sch, n) ==
    \A d \in 1 .. 6 :
        \/ sch[n][d] # OFF
        \/ ~_can_work_day(sch, previous_sunday_workers, n, DAYS[d + 1])

Reconciled(sch, hrs, n) ==
    \/ staff[n].is_overnight_specialist
    \/ hrs[n] >= TargetHours
    \/ NoExtendable(sch, n) /\ NoAddable(sch, n)

LeavesReconciled ==
    (pc = "fine_tune_loop" /\ pc' = "fine_tune")
        => Reconciled(schedule', hours', work[i])

\* inside a _fill_remaining loop or inside the _fine_tune_hours pass
InReconciliation == pc = "regular_fill" \/ InFineTune

C23_ReconciliationTerminates ==
    /\ [](Done => \A n \in Names : Reconciled(schedule, hours, n))
    /\ [][LeavesReconciled]_vars
    /\ []<>(~InReconciliation)

\* the pass has just left a staff member it brought to exactly 40 hours by
\* moving the end of a shift
C23_Witness ==
    /\ pc = "fine_tune"
    /\ i > 1
    /\ i <= Len(work)
    /\ current = TargetHours
    /\ hours[work[i - 1]] = TargetHours
    /\ \E d \in DayIdx : Extended(schedule[work[i - 1]][d])

(***************************************************************************)
(* C24.  No backtracking: within a run a cell that is not OFF never        *)
(* returns to OFF and never changes its start; its end only changes in the *)
(* reconciliation pass, to a later hour of the same day; and no staff      *)
(* member's hours ever go down.                                            *)
(***************************************************************************)
CellKept(old, new) ==
    /\ new # OFF
    /\ new[1] = old[1]
    /\ \/ new[2] = old[2]
       \/ /\ pc = "fine_tune_loop"
          /\ _parse_hour(new[2]) > _parse_hour(old[2])
          /\ _parse_hour(new[2]) > _parse_hour(new[1])

NoBacktrackingStep ==
    pc # "done" =>
        /\ \A n \in Names : \A d \in DayIdx :
              schedule[n][d] # OFF => CellKept(schedule[n][d], schedule'[n][d])
        /\ \A n \in Names : hours'[n] >= hours[n]

C24_NoBacktracking == [][NoBacktrackingStep]_vars

\* a finished run in which a Sunday cell written by the first phase stands
\* next to a cell whose end the last phase moved
C24_Witness ==
    /\ Done
    /\ \E n \in Names :
          /\ schedule[n][0] = <<Time(6, "AM"), Time(9, "PM")>>
          /\ \E d \in 1 .. 6 : Extended(schedule[n][d])

(***************************************************************************)
(* C25.  Hours accounting: in every state (each is the state after a call  *)
(* of _assign_shift or _extend_shift) hours[name] is the sum over the      *)
(* seven days of the duration of the member's cells, end - start or        *)
(* (24 - start) + end across midnight; and the hours every catalog entry   *)
(* states are the duration of its start and end.                           *)
(***************************************************************************)
CatalogHoursMatch ==
    \A t \in DOMAIN SHIFTS : SHIFTS[t][3] = _calc_hours(SHIFTS[t][1], SHIFTS[t][2])

C25_HoursAccounting ==
    /\ CatalogHoursMatch
    /\ \A n \in Names :
          hours[n] = WeekHours(schedule, n)

\* a finished run where one member's 40 hours include an overnight cell
\* (the wrap-around case) and another member's 40 hours a cell whose end
\* was moved
C25_Witness ==
    /\ Done
    /\ \E n \in Names :
          /\ hours[n] = TargetHours
          /\ \E d \in DayIdx : IsOvernight(schedule[n][d])
    /\ \E m \in Names :
          /\ hours[m] = TargetHours
          /\ \E d \in DayIdx : Extended(schedule[m][d])

(***************************************************************************)
(* C26.  Off after overnight: in the finished schedule of every run, the   *)
(* day after a member's overnight shift (Sunday after Saturday) holds no   *)
(* daytime shift of that member: it is OFF or another overnight shift.     *)
(***************************************************************************)
RestsAfterNight(sch, n, d) ==
    LET next == sch[n][(d + 1) % 7]
    IN  IsOvernight(sch[n][d]) => (next = OFF \/ IsOvernight(next))

C26_OffAfterOvernight ==
    Done => \A n \in Names : \A d \in DayIdx : RestsAfterNight(schedule, n, d)

\* a finished run where one member works the Saturday and the Sunday night
\* and another, booked by day on Sunday, has the day after their night free
C26_Witness ==
    /\ Done
    /\ \E n \in Names : IsOvernight(schedule[n][6]) /\ IsOvernight(schedule[n][0])
    /\ \E m \in Names : \E d \in 1 .. 5 :
          /\ IsOvernight(schedule[m][d])
          /\ schedule[m][d + 1] = OFF
          /\ schedule[m][0] # OFF
          /\ ~IsOvernight(schedule[m][0])

(***************************************************************************)
(* C27.  Extension before addition: a step of the reconciliation pass that *)
(* books a new cell books exactly one, for the member the loop stands at,  *)
(* and only when none of that member's cells can be extended (each is OFF, *)
(* overnight or ends at 9:00 PM); the cell is the earliest of Monday to    *)
(* Saturday that is OFF and passes _can_work_day; and it starts at 6:00 AM *)
(* only if the member did not close at 9:00 PM the day before.             *)
(***************************************************************************)
Added ==
    {c \in Names \X DayIdx :
        schedule[c[1]][c[2]] = OFF /\ schedule'[c[1]][c[2]] # OFF}

Addable(sch, n, d) ==
    /\ sch[n][d] = OFF
    /\ _can_work_day(sch, previous_sunday_workers, n, DAYS[d + 1])

AdditionStep ==
    (InFineTune /\ Added # {}) =>
        /\ pc = "fine_tune_loop"
        /\ \E d \in 1 .. 6 :
              LET n == work[i]
                  new == schedule'[n][d]
              IN  /\ Added = {<<n, d>>}
                  /\ NoExtendable(schedule, n)
                  /\ Addable(schedule, n, d)
                  /\ \A e \in 1 .. d - 1 : ~Addable(schedule, n, e)
                  /\ new[1] = Time(6, "AM") => ~_closes_at_9pm(schedule, n, d - 1)
                  /\ schedule' = [schedule EXCEPT ![n][d] = new]

C27_ExtensionBeforeAddition == [][AdditionStep]_vars

\* the pass has just given KEVAUGHN, closing at 9:00 PM on Monday, a
\* Tuesday shift that starts at 10:00 AM
C27_Witness ==
    /\ pc = "fine_tune_loop"
    /\ work[i] = "KEVAUGHN"
    /\ schedule["KEVAUGHN"][0] = OFF
    /\ schedule["KEVAUGHN"][1] = <<Time(6, "AM"), Time(9, "PM")>>
    /\ schedule["KEVAUGHN"][2] = <<Time(10, "AM"), Time(6, "PM")>>
    /\ schedule["KEVAUGHN"][3] = OFF
    /\ hours["KEVAUGHN"] = 23

(***************************************************************************)
(* C28.  Highest-need day first: an iteration of _fill_remaining books at  *)
(* most one cell, for the member it fills, on the day of Monday..Saturday  *)
(* that is OFF, passes _can_work_day and has the largest                   *)
(* DAILY_TARGETS[day] - (non-overnight headcount + 1), the earliest such   *)
(* day on ties, never Sunday; the cell is a 15-hour shift only if at least *)
(* 15 hours are missing, the member can open and that difference is >= 0;  *)
(* and nothing is booked when fewer than 7 hours are missing.              *)
(***************************************************************************)
Room(sch, d) == DAILY_TARGETS[DAYS[d + 1]] - (_get_daily_count(sch, d) + 1)

\* what one iteration for member n may have made of the schedule
FillOutcome(n, after) ==
    LET remaining == TargetHours - hours[n]
        candidates == {d \in 1 .. 6 : Addable(schedule, n, d)}
    IN  /\ remaining < 7 => after = schedule
        /\ \/ after = schedule
           \/ \E d \in candidates :
                 /\ after = [schedule EXCEPT ![n][d] = after[n][d]]
                 /\ after[n][d] # OFF
                 /\ \A e \in candidates :
                       /\ Room(schedule, e) <= Room(schedule, d)
                       /\ Room(schedule, e) = Room(schedule, d) => d <= e
                 /\ Duration(after[n][d]) = 15 =>
                       /\ remaining >= 15
                       /\ _can_open_next_day(schedule, n, d)
                       /\ Room(schedule, d) >= 0
        /\ (remaining >= 7 /\ candidates # {}) => after # schedule

FillStep ==
    (pc = "regular_fill" /\ hours[work[i].name] < TargetHours
        /\ iteration < MaxIterations)
        => FillOutcome(work[i].name, schedule')

\* the same for the iteration any member under 40 hours would get where the
\* supervisor phase or the regular phase begins
FillAnywhere ==
    pc \in {"supervisors_enter", "regular_enter"} =>
        \A n \in Names :
            hours[n] < TargetHours =>
                FillOutcome(n, FillIteration(Now, previous_sunday_workers, n).st.schedule)

C28_HighestNeedFirst == [](FillAnywhere) /\ [][FillStep]_vars

\* _fill_remaining has just given ORVILLE a Friday shift, passing over a
\* free Thursday he could have worked
C28_Witness ==
    /\ pc = "regular_fill"
    /\ iteration = 1
    /\ work[i].name = "ORVILLE"
    /\ hours["ORVILLE"] = TargetHours
    /\ schedule["ORVILLE"][4] = OFF
    /\ _can_work_day(schedule, previous_sunday_workers, "ORVILLE", "THURSDAY")
    /\ schedule["ORVILLE"][5] = <<Time(6, "AM"), Time(2, "PM")>>

(***************************************************************************)
(* The weekly chain from an empty rotation record: every finished run      *)
(* hands its get_sunday_workers() to the next one.  saved keeps the        *)
(* schedule and hours of the last two finished runs.                       *)
(***************************************************************************)
InitChain ==
    /\ self_staff = Dict(STAFF_ROSTER)
    /\ previous_sunday_workers = <<>>
    /\ saved = <<>>
    /\ schedule = InitSchedule
    /\ hours = InitHours
    /\ pc = "sunday_supervisor"
    /\ queue = <<>>
    /\ work = <<>>
    /\ i = 1
    /\ assigned = 0
    /\ iteration = 0
    /\ current = 0

LastTwo(history, result) ==
    IF Len(history) < 2 THEN Append(history, result)
    ELSE <<history[2], result>>

NextWeekRecorded ==
    /\ pc = "done"
    /\ saved' = LastTwo(saved, Now)
    /\ self_staff' = self_staff
    /\ previous_sunday_workers' =
           get_previous_sunday_workers(save_sunday_workers(get_sunday_workers(schedule)))
    /\ schedule' = InitSchedule
    /\ hours' = InitHours
    /\ pc' = "sunday_supervisor"
    /\ queue' = <<>>
    /\ work' = <<>>
    /\ i' = 1
    /\ assigned' = 0
    /\ iteration' = 0
    /\ current' = 0

NextChain ==
    \/ AssignSundaySupervisor
    \/ AssignSundayAuxiliary
    \/ SundayRegularList
    \/ AssignSundayRegular
    \/ AssignSundayOvernight
    \/ EnterOvernight
    \/ AssignOvernight
    \/ EnterSupervisors
    \/ AssignSupervisors
    \/ EnterRichard
    \/ AssignRichard
    \/ EnterAuxiliary
    \/ AssignAuxiliary
    \/ EnterRegular
    \/ RegularPattern
    \/ TryAssign
    \/ FillRemaining
    \/ EnterFineTune
    \/ FineTuneName
    \/ FineTuneLoop
    \/ NextWeekRecorded

\* the chain never stops: a run that can take a step takes it, and a
\* finished run is followed by the next week's
SpecChain == InitChain /\ [][NextChain]_vars /\ WF_vars(NextChain)

(***************************************************************************)
(* C29.  Two-week cycle: in the chain from an empty rotation record, every *)
(* finished run that has two finished runs before it ends with the         *)
(* schedule and the hours of the run two weeks earlier.                    *)
(***************************************************************************)
C29_TwoWeekCycle ==
    (Done /\ Len(saved) = 2) => Now = saved[1]

\* a finished run with MELLISA on the Sunday, two weeks after a run that
\* differs from the week in between
C29_Witness ==
    /\ Done
    /\ Len(saved) = 2
    /\ saved[1] # saved[2]
    /\ schedule["MELLISA"][0] # OFF
    /\ schedule["KEVAUGHN"][0] = OFF
    /\ saved[2].schedule["KEVAUGHN"][0] # OFF

(***************************************************************************)
(* C30.  Rotation fairness: in the unending chain from an empty rotation   *)
(* record, every staff member whose fixed_day_off does not hold SUNDAY     *)
(* has, sooner or later, a shift on a Sunday.                              *)
(***************************************************************************)
NotFixedOffSunday ==
    {STAFF_ROSTER[k].name : k \in {j \in 1 .. Len(STAFF_ROSTER) :
                                      "SUNDAY" \notin STAFF_ROSTER[j].fixed_day_off}}

C30_RotationFairness ==
    \A n \in NotFixedOffSunday : <>(schedule[n][0] # OFF)

====
